---- MODULE Spec2Model ----
(***************************************************************************)
(* Exam lifecycle of the RAD2 CBCT API (app/main.py, app/ia_infer.py):     *)
(* upload, the analysis request, the background analysis task and the      *)
(* simple inference step, over a shared Firestore collection and GCS.      *)
(***************************************************************************)
EXTENDS Integers, Sequences, FiniteSets, TLC

\* ------------------------------------------------------------------ bounds
MaxRequests == 3
MaxFiles == 3

\* ------------------------------------------------------- configuration
GCS_UPLOAD_BUCKET == "rad2-459117-uploads"
GCS_OUTPUT_BUCKET == "rad2-459117-outputs"

\* ------------------------------------------------------------ values
None == [none |-> TRUE]
SERVER_TIMESTAMP == [sentinel |-> "SERVER_TIMESTAMP"]
Timestamp(n) == [ts |-> n]

ExamIds == 1..MaxRequests

\* File names are sequences of characters: scan.nii.gz, SCAN.NII, notes.txt
ScanNiiGz == <<"s", "c", "a", "n", ".", "n", "i", "i", ".", "g", "z">>
ScanNiiUpper == <<"S", "C", "A", "N", ".", "N", "I", "I">>
NotesTxt == <<"n", "o", "t", "e", "s", ".", "t", "x", "t">>
FileNames == {ScanNiiGz, ScanNiiUpper, NotesTxt}

\* the upload sets the requests carry: none, one file, two files
UploadSets == {<<>>, <<ScanNiiGz>>, <<NotesTxt>>, <<NotesTxt, ScanNiiUpper>>}

\* str.lower() on one character
LowerChar(c) ==
    CASE c = "S" -> "s"
      [] c = "C" -> "c"
      [] c = "A" -> "a"
      [] c = "N" -> "n"
      [] c = "I" -> "i"
      [] c = "G" -> "g"
      [] c = "Z" -> "z"
      [] c = "T" -> "t"
      [] c = "X" -> "x"
      [] OTHER -> c

Lower(s) == [i \in 1..Len(s) |-> LowerChar(s[i])]

\* str.endswith(suffix)
EndsWith(s, suffix) ==
    /\ Len(suffix) <= Len(s)
    /\ SubSeq(s, Len(s) - Len(suffix) + 1, Len(s)) = suffix

NiftiSuffixes == {<<".", "n", "i", "i">>, <<".", "n", "i", "i", ".", "g", "z">>}

\* the suffix compared without .lower()
IsNiftiName_CaseSensitive(name) == \E suf \in NiftiSuffixes : EndsWith(name, suf)

\* main.py:123  file_upload.filename.lower().endswith((".nii", ".nii.gz"))
IsNiftiName(name) == \E suf \in NiftiSuffixes : EndsWith(Lower(name), suf)

\* f"gs://{bucket}/{folder}/{file}"
GcsPath(bucket, folder, file) ==
    [scheme |-> "gs://", bucket |-> bucket, folder |-> folder, file |-> file]

\* the presence check dropped: an absent path passes
StartsWithGs_AbsentPasses(p) == p = None \/ p.scheme = "gs://"

\* Python truthiness of an optional path followed by .startswith("gs://")
StartsWithGs(p) == p # None /\ p.scheme = "gs://"

\* ------------------------------------------------------------ statuses
allowed_initial_status == "uploaded"
processing_status == "processing_ia_simple"
final_statuses == {"processed_success_simple", "processed_error_simple",
                   "error_no_nifti_path", "error_processing_fatal"}

VARIABLES
    records,    \* Firestore collection "exams": exam id -> document
    blobs,      \* GCS: set of stored object paths
    next_id,    \* next identifier uuid4() hands out
    clock,      \* server time, advanced by every write
    calls,      \* /ia-analisar requests, in arrival order
    tasks,      \* background tasks added by add_task, in scheduling order
    uploads,    \* /upload-cbct/ requests: uploads[k] got identifier k
    queries     \* /status and /laudo requests, in arrival order

vars == <<records, blobs, next_id, clock, calls, tasks, uploads, queries>>

\* the requests received so far: one identifier is handed out per upload
Requests == (next_id - 1) + Len(calls) + Len(queries)

\* ---------------------------------------------------------------- Init
Init ==
    /\ records = <<>>
    /\ blobs = {}
    /\ next_id = 1
    /\ clock = 0
    /\ calls = <<>>
    /\ tasks = <<>>
    /\ uploads = <<>>
    /\ queries = <<>>

\* an update that leaves updated_at as it was
UpdateDoc_KeepsUpdatedAt(doc, data, now) ==
    [f \in DOMAIN doc |->
        IF f \in DOMAIN data /\ f # "updated_at" THEN data[f] ELSE doc[f]]

\* an update that stamps created_at as well
UpdateDoc_TouchesCreatedAt(doc, data, now) ==
    [f \in DOMAIN doc |->
        IF f \in DOMAIN data
        THEN (IF f = "updated_at" /\ data[f] = SERVER_TIMESTAMP
              THEN Timestamp(now) ELSE data[f])
        ELSE IF f = "created_at" THEN Timestamp(now)
        ELSE doc[f]]

\* an update that writes the timestamp only
UpdateDoc_TimestampOnly(doc, data, now) ==
    [f \in DOMAIN doc |->
        IF f = "updated_at" /\ f \in DOMAIN data THEN Timestamp(now) ELSE doc[f]]

\* DocumentReference.update(): named fields replaced, the others kept,
\* the SERVER_TIMESTAMP sentinel resolved to the server time of the write.
UpdateDoc(doc, data, now) ==
    [f \in DOMAIN doc |->
        IF f \in DOMAIN data
        THEN (IF f = "updated_at" /\ data[f] = SERVER_TIMESTAMP
              THEN Timestamp(now) ELSE data[f])
        ELSE doc[f]]

\* an HTTP response: the status code and which return or raise produced it
Response(code, kind) == [code |-> code, kind |-> kind]

\* ------------------------------------------------------------ upload
\* main.py:108-125, the loop over the files that were stored: the paths, the
\* names and the first NIfTI path, in arrival order.
RECURSIVE UploadLoop(_, _, _, _, _, _)
UploadLoop(exam_id, files, i, gcs_file_paths, original_filenames, principal) ==
    IF i > Len(files)
    THEN [gcs_file_paths |-> gcs_file_paths,
          original_filenames |-> original_filenames,
          principal_nifti_gcs_path |-> principal]
    ELSE LET current_gcs_path == GcsPath(GCS_UPLOAD_BUCKET, exam_id, files[i])
         IN  UploadLoop(exam_id, files, i + 1,
                        Append(gcs_file_paths, current_gcs_path),
                        Append(original_filenames, files[i]),
                        IF IsNiftiName(files[i]) /\ principal = None
                        THEN current_gcs_path ELSE principal)

\* the raw paths holding the principal path only
NewExamData_RawIsPrincipal(exam_id, loop, now) ==
    [exam_id |-> exam_id,
     created_at |-> Timestamp(now),
     status |-> "uploaded",
     original_filenames |-> loop.original_filenames,
     gcs_raw_file_paths |-> IF loop.principal_nifti_gcs_path = None THEN <<>>
                            ELSE <<loop.principal_nifti_gcs_path>>,
     gcs_principal_nifti_path |-> loop.principal_nifti_gcs_path,
     updated_at |-> None,
     gcs_output_mask_path |-> None,
     gcs_output_findings_path |-> None,
     gcs_laudo_pdf_path |-> None,
     error_message |-> None]

\* main.py:138-151
NewExamData(exam_id, loop, now) ==
    [exam_id |-> exam_id,
     created_at |-> Timestamp(now),
     status |-> "uploaded",
     original_filenames |-> loop.original_filenames,
     gcs_raw_file_paths |-> loop.gcs_file_paths,
     gcs_principal_nifti_path |-> loop.principal_nifti_gcs_path,
     updated_at |-> None,
     gcs_output_mask_path |-> None,
     gcs_output_findings_path |-> None,
     gcs_laudo_pdf_path |-> None,
     error_message |-> None]

\* a blob failure not raised: the record is built from the files stored so far
upload_cbct_endpoint_KeepsPartial(files, fail_at, set_ok) ==
    /\ Requests < MaxRequests
    /\ LET exam_id == next_id
           stored == IF fail_at = 0 THEN files ELSE SubSeq(files, 1, fail_at - 1)
           loop == UploadLoop(exam_id, stored, 1, <<>>, <<>>, None)
           created == loop.gcs_file_paths # <<>> /\ set_ok
       IN  /\ next_id' = next_id + 1
           /\ blobs' = blobs \cup {loop.gcs_file_paths[i] : i \in 1..Len(stored)}
           /\ IF created
              THEN /\ clock' = clock + 1
                   /\ records' = [e \in DOMAIN records \cup {exam_id} |->
                                    IF e = exam_id
                                    THEN NewExamData(exam_id, loop, clock + 1)
                                    ELSE records[e]]
              ELSE UNCHANGED <<clock, records>>
           /\ uploads' = Append(uploads,
                 [files |-> files,
                  failed |-> IF fail_at = 0 THEN None ELSE files[fail_at],
                  response |-> IF fail_at # 0 THEN Response(500, "gcs_upload_error")
                               ELSE IF loop.gcs_file_paths = <<>>
                               THEN Response(400, "no_files")
                               ELSE IF ~set_ok THEN Response(500, "firestore_error")
                               ELSE Response(201, "created")])
    /\ UNCHANGED <<calls, tasks, queries>>

\* POST /upload-cbct/ .  fail_at = k > 0: the k-th blob upload raises (500);
\* set_ok = FALSE: the Firestore set() raises (500).  The request is logged
\* with its files, the file named in the detail of a blob failure, and the
\* response.
upload_cbct_endpoint(files, fail_at, set_ok) ==
    /\ Requests < MaxRequests
    /\ LET exam_id == next_id
           stored == IF fail_at = 0 THEN files ELSE SubSeq(files, 1, fail_at - 1)
           loop == UploadLoop(exam_id, stored, 1, <<>>, <<>>, None)
           created == fail_at = 0 /\ loop.gcs_file_paths # <<>> /\ set_ok
       IN  /\ next_id' = next_id + 1
           /\ blobs' = blobs \cup {loop.gcs_file_paths[i] : i \in 1..Len(stored)}
           /\ IF created
              THEN /\ clock' = clock + 1
                   /\ records' = [e \in DOMAIN records \cup {exam_id} |->
                                    IF e = exam_id
                                    THEN NewExamData(exam_id, loop, clock + 1)
                                    ELSE records[e]]
              ELSE UNCHANGED <<clock, records>>
           /\ uploads' = Append(uploads,
                 [files |-> files,
                  failed |-> IF fail_at = 0 THEN None ELSE files[fail_at],
                  response |-> IF fail_at # 0 THEN Response(500, "gcs_upload_error")
                               ELSE IF loop.gcs_file_paths = <<>>
                               THEN Response(400, "no_files")
                               ELSE IF ~set_ok THEN Response(500, "firestore_error")
                               ELSE Response(201, "created")])
    /\ UNCHANGED <<calls, tasks, queries>>

Upload ==
    \E files \in UploadSets, set_ok \in BOOLEAN :
        \E fail_at \in 0..Len(files) : upload_cbct_endpoint(files, fail_at, set_ok)

\* ------------------------------------------------- analysis request
\* the fields of the snapshot the handler goes on to read (lines 242, 260)
GuardFields == {"status", "gcs_principal_nifti_path"}

\* main.py:231-240  the document read.  HTTPException derives from Exception,
\* so the 404 raised inside the try block is caught by `except Exception`
\* and re-raised as 500.
analisar_cbct_endpoint_get(exam_id, get_ok) ==
    /\ Requests < MaxRequests
    /\ exam_id <= next_id
    /\ calls' = Append(calls,
         IF ~get_ok
         THEN [exam |-> exam_id, pc |-> "returned", exam_data |-> None,
               response |-> Response(500, "firestore_error")]
         ELSE IF exam_id \notin DOMAIN records
         THEN [exam |-> exam_id, pc |-> "returned", exam_data |-> None,
               response |-> Response(500, "not_found")]
         ELSE [exam |-> exam_id, pc |-> "guards",
               exam_data |-> [f \in GuardFields |-> records[exam_id][f]],
               response |-> None])
    /\ UNCHANGED <<records, blobs, next_id, clock, tasks, uploads, queries>>

\* the guards without the check of line 253
StatusGuard_NoFinalCheck(current_status) ==
    IF current_status = processing_status
    THEN Response(202, "already_in_progress")
    ELSE IF current_status # allowed_initial_status /\ current_status \notin final_statuses
    THEN Response(400, "invalid_state")
    ELSE None

\* the guards without the check of line 250
StatusGuard_NoProcessingCheck(current_status) ==
    IF current_status \in final_statuses
    THEN Response(409, "conflict")
    ELSE IF current_status # allowed_initial_status /\ current_status # processing_status
    THEN Response(400, "invalid_state")
    ELSE None

\* main.py:250-258  the guard on the status that was read
StatusGuard(current_status) ==
    IF current_status = processing_status
    THEN Response(202, "already_in_progress")
    ELSE IF current_status \in final_statuses
    THEN Response(409, "conflict")
    ELSE IF current_status # allowed_initial_status
    THEN Response(400, "invalid_state")
    ELSE None

\* main.py:242-275  guards, the error_no_nifti_path update, add_task.
analisar_cbct_endpoint_guards(c, update_ok) ==
    /\ c \in 1..Len(calls)
    /\ calls[c].pc = "guards"
    /\ LET exam_id == calls[c].exam
           exam_data == calls[c].exam_data
           rejected == StatusGuard(exam_data.status)
           principal_nifti_gcs_path == exam_data.gcs_principal_nifti_path
       IN  IF rejected # None
           THEN /\ calls' = [calls EXCEPT ![c].pc = "returned", ![c].exam_data = None,
                                          ![c].response = rejected]
                /\ UNCHANGED <<records, clock, tasks>>
           ELSE IF ~StartsWithGs(principal_nifti_gcs_path)
           THEN /\ calls' = [calls EXCEPT ![c].pc = "returned", ![c].exam_data = None,
                                          ![c].response = Response(400, "bad_input")]
                /\ IF update_ok
                   THEN /\ clock' = clock + 1
                        /\ records' = [records EXCEPT ![exam_id] =
                              UpdateDoc(@, [status |-> "error_no_nifti_path",
                                            updated_at |-> SERVER_TIMESTAMP],
                                        clock + 1)]
                   ELSE UNCHANGED <<records, clock>>
                /\ UNCHANGED tasks
           ELSE /\ calls' = [calls EXCEPT ![c].pc = "returned", ![c].exam_data = None,
                                          ![c].response = Response(202, "accepted")]
                /\ tasks' = Append(tasks,
                      [exam |-> exam_id, path |-> principal_nifti_gcs_path,
                       call |-> c, pc |-> "scheduled",
                       step |-> None,
                       raised |-> None, results |-> None, update_data |-> None])
                /\ UNCHANGED <<records, clock>>
    /\ UNCHANGED <<blobs, next_id, uploads, queries>>

StartAnalysisGet ==
    \E exam_id \in ExamIds, get_ok \in BOOLEAN :
        analisar_cbct_endpoint_get(exam_id, get_ok)

StartAnalysisGuards ==
    \E c \in 1..Len(calls), update_ok \in BOOLEAN :
        analisar_cbct_endpoint_guards(c, update_ok)

\* ------------------------------------------------- simple inference
\* ia_infer.py:104,114  the format spec written after the colon of
\* f"{limiar:.2f if not np.isnan(limiar) else 'N/A'}"
LimiarFormatSpec == ".2f if not np.isnan(limiar) else 'N/A'"

\* float.__format__ accepts the format mini-language only; anything else
\* raises ValueError("Invalid format specifier").
ValidFloatFormatSpecs == {"", "f", ".2f", ".1f", "e", ".2e", "g", "%"}
FormatRaises(format_spec) == format_spec \notin ValidFloatFormatSpecs

\* ia_infer.py:83-124  the statements of the try block, in order
TrySteps == <<"download", "load", "format_limiar_log", "save_mask",
              "format_achados", "write_achados", "upload_mask",
              "upload_achados">>

\* One run of the step: fault names the first I/O statement that fails for a
\* reason outside the program ("none", "tmpdir" or a statement of the try
\* block), err_log_ok whether the error log of lines 137-141 gets stored.
Faults == {"none", "tmpdir", "download", "load", "save_mask", "write_achados",
           "upload_mask", "upload_achados"}

StepRaises(step, fault) ==
    \/ step = fault
    \/ step \in {"format_limiar_log", "format_achados"} /\ FormatRaises(LimiarFormatSpec)

\* the first statement of the try block that raises, "none" if none does
RECURSIVE FirstRaised(_, _)
FirstRaised(i, fault) ==
    IF i > Len(TrySteps) THEN "none"
    ELSE IF StepRaises(TrySteps[i], fault) THEN TrySteps[i]
    ELSE FirstRaised(i + 1, fault)

\* the faults that strike before the volume is in memory
EarlyFaults == {"tmpdir", "download", "load"}

\* the volumes the input file may hold, flattened: empty, constant, varied
Volumes == {<<>>, <<7, 7, 7>>, <<1, 9, 4>>}

\* np.nan
NaN == [nan |-> TRUE]

\* the element of index k (from 0) of sorted(dados)
Kth(dados, k) ==
    CHOOSE v \in {dados[i] : i \in 1..Len(dados)} :
        /\ Cardinality({i \in 1..Len(dados) : dados[i] < v}) <= k
        /\ k < Cardinality({i \in 1..Len(dados) : dados[i] <= v})

\* np.percentile(dados, 95), linear interpolation between the two nearest
\* ranks; the value is kept as one hundred times the percentile
Percentile95(dados) ==
    LET rank == 95 * (Len(dados) - 1)
        lo == rank \div 100
        hi == IF lo + 1 <= Len(dados) - 1 THEN lo + 1 ELSE lo
    IN  [x100 |-> 100 * Kth(dados, lo)
                  + (rank % 100) * (Kth(dados, hi) - Kth(dados, lo))]

\* ia_infer.py:93-102  the mask and the threshold of a volume
Segment(dados) ==
    IF Len(dados) = 0 \/ \A i \in 1..Len(dados) : dados[i] = dados[1]
    THEN [dados |-> dados, mascara_numpy |-> [i \in 1..Len(dados) |-> 0], limiar |-> NaN]
    ELSE LET limiar == Percentile95(dados)
         IN  [dados |-> dados,
              mascara_numpy |-> [i \in 1..Len(dados) |->
                                   IF 100 * dados[i] > limiar.x100 THEN 1 ELSE 0],
              limiar |-> limiar]

\* ia_infer.py:72  base_input_filename.split('.')[0]
RECURSIVE SplitDotFirst(_, _)
SplitDotFirst(name, i) ==
    IF i > Len(name) \/ name[i] = "." THEN SubSeq(name, 1, i - 1)
    ELSE SplitDotFirst(name, i + 1)

\* ia_infer.py:57-150.
\* escaped: an exception leaves the function (only the temporary directory
\* is outside the try block); uploaded: the blobs the run stored.
executar_inferencia_simples_gcs(input_nifti_gcs_path, output_gcs_bucket_name, output_gcs_folder_for_exam, fault, err_log_ok) ==
    LET nome_base_sem_ext == SplitDotFirst(input_nifti_gcs_path.file, 1)
        mask_gcs_path == GcsPath(output_gcs_bucket_name, output_gcs_folder_for_exam,
                                 nome_base_sem_ext \o <<"_mask_simple.nii.gz">>)
        achados_gcs_path == GcsPath(output_gcs_bucket_name, output_gcs_folder_for_exam,
                                    nome_base_sem_ext \o <<"_achados_simple.txt">>)
        raised == FirstRaised(1, fault)
        mensagem_erro == [text |-> "ERRO durante a IA Simples",
                          path |-> input_nifti_gcs_path, cause |-> raised]
    IN  IF fault = "tmpdir"
        THEN [escaped |-> TRUE, raised |-> "tmpdir", uploaded |-> {}, results |-> None]
        ELSE IF raised = "none"
        THEN [escaped |-> FALSE, raised |-> raised,
              uploaded |-> {mask_gcs_path, achados_gcs_path},
              results |-> [success |-> TRUE,
                           output_mask_gcs_path |-> mask_gcs_path,
                           output_achados_gcs_path |-> achados_gcs_path]]
        ELSE [escaped |-> FALSE, raised |-> raised,
              uploaded |-> (IF raised = "upload_achados" THEN {mask_gcs_path} ELSE {})
                           \cup (IF err_log_ok THEN {achados_gcs_path} ELSE {}),
              results |-> [success |-> FALSE,
                           error_message |-> mensagem_erro,
                           output_achados_gcs_path |->
                               IF err_log_ok THEN achados_gcs_path ELSE None]]

\* a reported failure that leaves the exam in processing
BuildUpdateData_FailureKeepsProcessing(run) ==
    IF run.escaped
    THEN [status |-> "error_processing_fatal",
          error_message |-> [text |-> "Erro fatal na analise", cause |-> run.raised],
          updated_at |-> SERVER_TIMESTAMP]
    ELSE IF run.results.success
    THEN [updated_at |-> SERVER_TIMESTAMP,
          status |-> "processed_success_simple",
          gcs_output_mask_path |-> run.results.output_mask_gcs_path,
          gcs_output_findings_path |-> run.results.output_achados_gcs_path,
          error_message |-> None]
    ELSE [updated_at |-> SERVER_TIMESTAMP,
          status |-> "processing_ia_simple",
          error_message |-> run.results.error_message]

\* the partial findings path of a reported failure not written
BuildUpdateData_DropsFindings(run) ==
    IF run.escaped
    THEN [status |-> "error_processing_fatal",
          error_message |-> [text |-> "Erro fatal na analise", cause |-> run.raised],
          updated_at |-> SERVER_TIMESTAMP]
    ELSE IF run.results.success
    THEN [updated_at |-> SERVER_TIMESTAMP,
          status |-> "processed_success_simple",
          gcs_output_mask_path |-> run.results.output_mask_gcs_path,
          gcs_output_findings_path |-> run.results.output_achados_gcs_path,
          error_message |-> None]
    ELSE [updated_at |-> SERVER_TIMESTAMP,
          status |-> "processed_error_simple",
          error_message |-> run.results.error_message]

\* every failure of the step, reported or escaped, written as fatal
BuildUpdateData_FailureIsFatal(run) ==
    IF run.escaped \/ ~run.results.success
    THEN [status |-> "error_processing_fatal",
          error_message |-> [text |-> "Erro fatal na analise", cause |-> run.raised],
          updated_at |-> SERVER_TIMESTAMP]
    ELSE [updated_at |-> SERVER_TIMESTAMP,
          status |-> "processed_success_simple",
          gcs_output_mask_path |-> run.results.output_mask_gcs_path,
          gcs_output_findings_path |-> run.results.output_achados_gcs_path,
          error_message |-> None]

\* main.py:189-210  the final update built from the outcome of the step
BuildUpdateData(run) ==
    IF run.escaped
    THEN [status |-> "error_processing_fatal",
          error_message |-> [text |-> "Erro fatal na analise", cause |-> run.raised],
          updated_at |-> SERVER_TIMESTAMP]
    ELSE IF run.results.success
    THEN [updated_at |-> SERVER_TIMESTAMP,
          status |-> "processed_success_simple",
          gcs_output_mask_path |-> run.results.output_mask_gcs_path,
          gcs_output_findings_path |-> run.results.output_achados_gcs_path,
          error_message |-> None]
    ELSE IF run.results.output_achados_gcs_path # None
    THEN [updated_at |-> SERVER_TIMESTAMP,
          status |-> "processed_error_simple",
          error_message |-> run.results.error_message,
          gcs_output_findings_path |-> run.results.output_achados_gcs_path]
    ELSE [updated_at |-> SERVER_TIMESTAMP,
          status |-> "processed_error_simple",
          error_message |-> run.results.error_message]

\* -------------------------------------------------- background task
\* main.py:165-180  Firestore client, then the update to processing.
\* outcome: "client_error" (line 169), "update_error" (line 178) or "ok".
run_simple_analysis_background_begin(t, outcome) ==
    /\ t \in 1..Len(tasks)
    /\ tasks[t].pc = "scheduled"
    /\ IF outcome = "ok"
       THEN /\ clock' = clock + 1
            /\ records' = [records EXCEPT ![tasks[t].exam] =
                  UpdateDoc(@, [status |-> "processing_ia_simple",
                                updated_at |-> SERVER_TIMESTAMP], clock + 1)]
            /\ tasks' = [tasks EXCEPT ![t].pc = "inference"]
       ELSE /\ tasks' = [tasks EXCEPT ![t].pc = "aborted"]
            /\ UNCHANGED <<records, clock>>
    /\ UNCHANGED <<blobs, next_id, calls, uploads, queries>>

\* ia_infer.py:85-102  inside the step called at main.py:183: the input is
\* downloaded and loaded, the mask and the threshold are computed; the task
\* stands before line 104 with these locals of the step.
executar_inferencia_simples_gcs_segment(t, dados) ==
    /\ t \in 1..Len(tasks)
    /\ tasks[t].pc = "inference"
    /\ tasks' = [tasks EXCEPT ![t].pc = "step_computed", ![t].step = Segment(dados)]
    /\ UNCHANGED <<records, blobs, next_id, clock, calls, uploads, queries>>

\* main.py:183-210  the inference call returns or raises (results is None
\* when it raised) and the update data is built from it.  An early fault
\* strikes before the volume is in memory, any other after line 102; the
\* locals of the step are gone when it returns.
run_simple_analysis_background_infer(t, fault, err_log_ok) ==
    /\ t \in 1..Len(tasks)
    /\ \/ tasks[t].pc = "inference" /\ fault \in EarlyFaults
       \/ tasks[t].pc = "step_computed" /\ fault \notin EarlyFaults
    /\ LET run == executar_inferencia_simples_gcs(tasks[t].path, GCS_OUTPUT_BUCKET,
                                                  tasks[t].exam, fault, err_log_ok)
       IN  /\ blobs' = blobs \cup run.uploaded
           /\ tasks' = [tasks EXCEPT ![t].pc = "final_update",
                                     ![t].step = None,
                                     ![t].raised = [step |-> run.raised],
                                     ![t].results = run.results,
                                     ![t].update_data = BuildUpdateData(run)]
    /\ UNCHANGED <<records, next_id, clock, calls, uploads, queries>>

\* main.py:212-217  the final update; its failure is only logged.  The
\* locals of the coroutine are gone once it returns.
run_simple_analysis_background_final(t, update_ok) ==
    /\ t \in 1..Len(tasks)
    /\ tasks[t].pc = "final_update"
    /\ IF update_ok
       THEN /\ clock' = clock + 1
            /\ records' = [records EXCEPT ![tasks[t].exam] =
                  UpdateDoc(@, tasks[t].update_data, clock + 1)]
            /\ tasks' = [tasks EXCEPT ![t].pc = "done",
                                      ![t].raised = None, ![t].results = None,
                                      ![t].update_data = None]
       ELSE /\ tasks' = [tasks EXCEPT ![t].pc = "final_update_failed",
                                      ![t].raised = None, ![t].results = None,
                                      ![t].update_data = None]
            /\ UNCHANGED <<records, clock>>
    /\ UNCHANGED <<blobs, next_id, calls, uploads, queries>>

TaskBegin ==
    \E t \in 1..Len(tasks), outcome \in {"ok", "client_error", "update_error"} :
        run_simple_analysis_background_begin(t, outcome)

TaskSegment ==
    \E t \in 1..Len(tasks), dados \in Volumes :
        executar_inferencia_simples_gcs_segment(t, dados)

TaskInfer ==
    \E t \in 1..Len(tasks), fault \in Faults, err_log_ok \in BOOLEAN :
        run_simple_analysis_background_infer(t, fault, err_log_ok)

TaskFinal ==
    \E t \in 1..Len(tasks), update_ok \in BOOLEAN :
        run_simple_analysis_background_final(t, update_ok)

\* ------------------------------------------------- status and report
\* main.py:277-294  GET /status/{exam_id}: the stored document, or 500; the
\* 404 of line 290 is raised inside the try block and caught by line 293.
status_exame_endpoint(exam_id, get_ok) ==
    /\ Requests < MaxRequests
    /\ exam_id <= next_id
    /\ queries' = Append(queries,
         IF ~get_ok
         THEN [op |-> "status", exam |-> exam_id, body |-> None,
               response |-> Response(500, "firestore_error")]
         ELSE IF exam_id \notin DOMAIN records
         THEN [op |-> "status", exam |-> exam_id, body |-> None,
               response |-> Response(500, "not_found")]
         ELSE [op |-> "status", exam |-> exam_id, body |-> records[exam_id],
               response |-> Response(200, "record")])
    /\ UNCHANGED <<records, blobs, next_id, clock, calls, tasks, uploads>>

\* the status check accepting both processed_* statuses
LaudoStatusOk_AnyProcessed(status) ==
    status \in {"processed_success_simple", "processed_error_simple"}

\* main.py:319  the status a report is generated for
LaudoStatusOk(status) == status = "processed_success_simple"

\* main.py:296-387  GET /laudo/{exam_id}.  io is what happens to the work in
\* the temporary directory: "download_error" (the download raises),
\* "file_not_found" (a FileNotFoundError), "pdf_error" (any other exception)
\* or "ok".  A findings blob that is not stored makes the download raise.
\* With "ok" line 380 returns a FileResponse for a file of the temporary
\* directory, which the `with` of line 331 removes when the return leaves
\* it: the response is sent after that and finds no file (500).
gerar_laudo_endpoint(exam_id, get_ok, io) ==
    /\ Requests < MaxRequests
    /\ exam_id <= next_id
    /\ LET exam_data == records[exam_id]
           achados_gcs_path == exam_data.gcs_output_findings_path
           response ==
               IF ~get_ok THEN Response(500, "firestore_error")
               ELSE IF exam_id \notin DOMAIN records THEN Response(500, "not_found")
               ELSE IF ~LaudoStatusOk(exam_data.status) THEN Response(400, "wrong_status")
               ELSE IF ~StartsWithGs(achados_gcs_path)
               THEN Response(404, "invalid_findings_path")
               ELSE IF achados_gcs_path \notin blobs \/ io = "download_error"
               THEN Response(500, "laudo_error")
               ELSE IF io = "file_not_found" THEN Response(404, "findings_not_found")
               ELSE IF io = "pdf_error" THEN Response(500, "laudo_error")
               ELSE Response(500, "pdf_file_removed")
       IN  queries' = Append(queries,
              [op |-> "laudo", exam |-> exam_id, body |-> None, response |-> response])
    /\ UNCHANGED <<records, blobs, next_id, clock, calls, tasks, uploads>>

Status ==
    \E exam_id \in ExamIds, get_ok \in BOOLEAN : status_exame_endpoint(exam_id, get_ok)

Report ==
    \E exam_id \in ExamIds, get_ok \in BOOLEAN :
        \E io \in {"ok", "download_error", "file_not_found", "pdf_error"} :
            gerar_laudo_endpoint(exam_id, get_ok, io)

\* ------------------------------------------------------ specifications
Next ==
    \/ Upload
    \/ StartAnalysisGet
    \/ StartAnalysisGuards
    \/ TaskBegin
    \/ TaskSegment
    \/ TaskInfer
    \/ TaskFinal
    \/ Status
    \/ Report

Spec == Init /\ [][Next]_vars

\* Sequential guard evaluation: a request is read only when every earlier
\* request has returned.
SeqStartAnalysisGet ==
    /\ \A c \in 1..Len(calls) : calls[c].pc = "returned"
    /\ StartAnalysisGet

NextSeq ==
    \/ Upload
    \/ SeqStartAnalysisGet
    \/ StartAnalysisGuards
    \/ TaskBegin
    \/ TaskSegment
    \/ TaskInfer
    \/ TaskFinal

SpecSeq == Init /\ [][NextSeq]_vars

\* The guards of /ia-analisar as a function of the stored document: one
\* document of exam 1 whose status and principal path are drawn from the
\* values get("status") and get("gcs_principal_nifti_path") may return,
\* among them a status the code does not name and a path without gs://.
StoredStatuses ==
    {allowed_initial_status, processing_status, "archived"} \cup final_statuses

StoredPaths ==
    {None,
     GcsPath(GCS_UPLOAD_BUCKET, 1, ScanNiiGz),
     [scheme |-> "file://", bucket |-> GCS_UPLOAD_BUCKET, folder |-> 1, file |-> ScanNiiGz]}

StoredDocs ==
    {[NewExamData(1, UploadLoop(1, <<ScanNiiGz>>, 1, <<>>, <<>>, None), 1)
        EXCEPT !.status = s, !.gcs_principal_nifti_path = p] :
            s \in StoredStatuses, p \in StoredPaths}

InitStored ==
    /\ records \in {[e \in {1} |-> doc] : doc \in StoredDocs}
    /\ blobs = {GcsPath(GCS_UPLOAD_BUCKET, 1, ScanNiiGz)}
    /\ next_id = 2
    /\ clock = 1
    /\ calls = <<>>
    /\ tasks = <<>>
    /\ uploads = <<[files |-> <<ScanNiiGz>>, failed |-> None,
                    response |-> Response(201, "created")]>>
    /\ queries = <<>>

NextStored ==
    \/ StartAnalysisGet
    \/ StartAnalysisGuards
    \/ TaskBegin
    \/ TaskSegment
    \/ TaskInfer
    \/ TaskFinal

SpecStored == InitStored /\ [][NextStored]_vars

\* The runs of one exam after its upload of scan.nii.gz in which every
\* Firestore write succeeds (the three update() calls, and the client the
\* task builds for them), and every scheduled task is run on: Starlette
\* awaits the background tasks of a response once the response is sent, and
\* each statement of the task returns or raises.
InitUploaded ==
    /\ records = [e \in {1} |->
                    NewExamData(1, UploadLoop(1, <<ScanNiiGz>>, 1, <<>>, <<>>, None), 1)]
    /\ blobs = {GcsPath(GCS_UPLOAD_BUCKET, 1, ScanNiiGz)}
    /\ next_id = 2
    /\ clock = 1
    /\ calls = <<>>
    /\ tasks = <<>>
    /\ uploads = <<[files |-> <<ScanNiiGz>>, failed |-> None,
                    response |-> Response(201, "created")]>>
    /\ queries = <<>>

StartAnalysisGuardsWritten ==
    \E c \in 1..Len(calls) : analisar_cbct_endpoint_guards(c, TRUE)

\* the next step of task t, its writes succeeding
TaskStepWritten(t) ==
    \/ run_simple_analysis_background_begin(t, "ok")
    \/ \E dados \in Volumes : executar_inferencia_simples_gcs_segment(t, dados)
    \/ \E fault \in Faults, err_log_ok \in BOOLEAN :
          run_simple_analysis_background_infer(t, fault, err_log_ok)
    \/ run_simple_analysis_background_final(t, TRUE)

TaskRuns == \E t \in 1..Len(tasks) : TaskStepWritten(t)

NextLive ==
    \/ StartAnalysisGet
    \/ StartAnalysisGuardsWritten
    \/ TaskRuns

SpecLive ==
    /\ InitUploaded
    /\ [][NextLive]_vars
    /\ \A t \in 1..MaxRequests : WF_vars(TaskStepWritten(t))

\* The upload as a function of its files: one request on the empty stores,
\* its files any sequence of up to MaxFiles names, any of them (or the
\* set()) failing.
FileSeqs == UNION {[1..n -> FileNames] : n \in 0..MaxFiles}

FirstUpload ==
    /\ next_id = 1
    /\ \E files \in FileSeqs, set_ok \in BOOLEAN :
          \E fail_at \in 0..Len(files) : upload_cbct_endpoint(files, fail_at, set_ok)

SpecUpload == Init /\ [][FirstUpload]_vars

\* ------------------------------------------------------------ helpers
CallIds == 1..Len(calls)
TaskIds == 1..Len(tasks)
QueryIds == 1..Len(queries)

\* request c runs its guards and returns in this step
Returns(c) == calls[c].pc = "guards" /\ calls'[c].pc = "returned"

\* task t performs its final update in this step
FinalWrite(t) == tasks[t].pc = "final_update" /\ tasks'[t].pc = "done"

TasksOf(e) == {t \in TaskIds : tasks[t].exam = e}

\* task t stops at line 171 or line 180 in this step
Aborts(t) == tasks[t].pc = "scheduled" /\ tasks'[t].pc = "aborted"

\* task t has written processing and has not yet attempted its final write
InRun(t) == tasks[t].pc \in {"inference", "step_computed", "final_update"}

\* the step of task t, its volume in memory, returns or raises in this step
StepEnds(t) == tasks[t].pc = "step_computed" /\ tasks'[t].pc = "final_update"

\* the final update of task t raises in this step (line 216)
FinalWriteFails(t) ==
    tasks[t].pc = "final_update" /\ tasks'[t].pc = "final_update_failed"

\* ================================================================ claims

\* C1: a terminal status is final: once the status of an exam is
\* processed_success, processed_error, error_no_input_path or
\* error_processing_fatal, no step changes it.
C1_TerminalIsFinal ==
    [][\A e \in DOMAIN records :
          records[e].status \in {"processed_success_simple", "processed_error_simple",
                                 "error_no_nifti_path", "error_processing_fatal"}
          => records'[e].status = records[e].status]_vars

\* C2: a request that read a status other than uploaded schedules no task
\* and answers "already in progress" for processing, the conflict error for a
\* terminal status and the invalid-state error for anything else.
C2_NotUploadedNeverSchedules ==
    [][\A c \in CallIds :
          (Returns(c) /\ calls[c].exam_data.status # "uploaded")
          => /\ tasks' = tasks
             /\ calls'[c].response =
                  IF calls[c].exam_data.status = "processing_ia_simple"
                  THEN [code |-> 202, kind |-> "already_in_progress"]
                  ELSE IF calls[c].exam_data.status \in
                          {"processed_success_simple", "processed_error_simple",
                           "error_no_nifti_path", "error_processing_fatal"}
                  THEN [code |-> 409, kind |-> "conflict"]
                  ELSE [code |-> 400, kind |-> "invalid_state"]]_vars

\* a second request on an exam under analysis was answered "already in
\* progress" and the only task is the one the first request scheduled
C2_Witness ==
    \E c \in CallIds :
        /\ calls[c].pc = "returned"
        /\ calls[c].response.kind = "already_in_progress"
        /\ Len(tasks) = 1
        /\ tasks[1].call # c
        /\ tasks[1].exam = calls[c].exam

\* C3: with sequential guard evaluation, at most one task is scheduled for
\* an exam (and so at most one task run reaches a processed_* status).
C3_AtMostOneTask ==
    \A e \in ExamIds : Cardinality(TasksOf(e)) <= 1

\* C4: when a request is accepted, the persisted status of its exam is
\* processing by the time it returns.
C4_ProcessingWhenAccepted ==
    [][\A c \in CallIds :
          (Returns(c) /\ calls'[c].response.kind = "accepted")
          => records'[calls[c].exam].status = "processing_ia_simple"]_vars

\* C5: end to end, for scan.nii.gz with every store call succeeding and the
\* input parsing as a volume, the final write of the task sets
\* processed_success with both output paths.
C5_EndToEndSuccess ==
    [][\A t \in TaskIds :
          (/\ FinalWrite(t)
           /\ tasks[t].path.file = ScanNiiGz
           /\ tasks[t].raised.step \notin Faults \ {"none"})
          => /\ records'[tasks[t].exam].status = "processed_success_simple"
             /\ records'[tasks[t].exam].gcs_output_mask_path # None
             /\ records'[tasks[t].exam].gcs_output_findings_path # None]_vars

\* C6 as stated: every request for an exam without a principal path is
\* rejected with the bad-input error and schedules no task.
C6_AlwaysBadInput ==
    [][\A c \in CallIds :
          (Returns(c) /\ records[calls[c].exam].gcs_principal_nifti_path = None)
          => /\ tasks' = tasks
             /\ calls'[c].response = [code |-> 400, kind |-> "bad_input"]]_vars

\* C6 amended: no request for an exam without a principal path schedules a
\* task; a request that read status uploaded is rejected with the bad-input
\* error, one that read error_no_input_path with the conflict error, and no
\* other status is ever read for such an exam.
C6_NoPrincipalNeverAnalysed ==
    [][\A c \in CallIds :
          (Returns(c) /\ records[calls[c].exam].gcs_principal_nifti_path = None)
          => /\ tasks' = tasks
             /\ TasksOf(calls[c].exam) = {}
             /\ calls[c].exam_data.status \in {"uploaded", "error_no_nifti_path"}
             /\ calls'[c].response =
                  IF calls[c].exam_data.status = "uploaded"
                  THEN [code |-> 400, kind |-> "bad_input"]
                  ELSE [code |-> 409, kind |-> "conflict"]]_vars

\* two requests for an exam without a principal path: the first rejected
\* with bad-input, the later one with conflict, no task scheduled
C6_Witness ==
    \E c1 \in CallIds, c2 \in CallIds :
        /\ c1 < c2
        /\ calls[c1].exam = calls[c2].exam
        /\ calls[c1].exam \in DOMAIN records
        /\ records[calls[c1].exam].gcs_principal_nifti_path = None
        /\ calls[c1].pc = "returned" /\ calls[c1].response.kind = "bad_input"
        /\ calls[c2].pc = "returned" /\ calls[c2].response.kind = "conflict"
        /\ tasks = <<>>

\* C7 as stated: whenever a request is rejected with the bad-input error,
\* the persisted status is error_no_input_path when it returns, also when
\* its update failed.
C7_BadInputAlwaysPersisted ==
    [][\A c \in CallIds :
          (Returns(c) /\ calls'[c].response.kind = "bad_input")
          => records'[calls[c].exam].status = "error_no_nifti_path"]_vars

\* C7 amended: when a request is rejected with the bad-input error and its
\* update is written, the persisted status is error_no_input_path when it
\* returns, and nothing but status and updated_at changed; when the update
\* fails, the records are as they were.
C7_BadInputStatus ==
    [][\A c \in CallIds :
          (Returns(c) /\ calls'[c].response.kind = "bad_input")
          => IF clock' # clock
             THEN /\ records'[calls[c].exam].status = "error_no_nifti_path"
                  /\ \A f \in DOMAIN records[calls[c].exam] \ {"status", "updated_at"} :
                        records'[calls[c].exam][f] = records[calls[c].exam][f]
             ELSE records' = records]_vars

\* two requests rejected with bad-input for one exam, the status persisted:
\* the update of one of them failed or both read uploaded
C7_Witness ==
    \E c1 \in CallIds, c2 \in CallIds :
        /\ c1 < c2
        /\ calls[c1].exam = calls[c2].exam
        /\ calls[c1].pc = "returned" /\ calls[c1].response.kind = "bad_input"
        /\ calls[c2].pc = "returned" /\ calls[c2].response.kind = "bad_input"
        /\ records[calls[c1].exam].status = "error_no_nifti_path"

\* C8: a record whose status is processed_success has both output paths
\* and no error message.
C8_SuccessHasOutputs ==
    \A e \in DOMAIN records :
        records[e].status = "processed_success_simple"
        => /\ records[e].gcs_output_mask_path # None
           /\ records[e].gcs_output_findings_path # None
           /\ records[e].error_message = None

\* no record ever has status processed_success: the format at
\* ia_infer.py:104 raises in every run of the step
SuccessNeverWritten ==
    \A e \in DOMAIN records : records[e].status # "processed_success_simple"

\* C9: a record whose status is a failure status has an error message.
C9_FailureHasMessage ==
    \A e \in DOMAIN records :
        records[e].status \in {"processed_error_simple", "error_no_nifti_path",
                               "error_processing_fatal"}
        => records[e].error_message # None

\* C10 as stated: when the load step fails, the final write of the task sets
\* error_processing_fatal with the failure text.
C10_LoadFailureIsFatal ==
    [][\A t \in TaskIds :
          (FinalWrite(t) /\ tasks[t].raised = [step |-> "load"])
          => /\ records'[tasks[t].exam].status = "error_processing_fatal"
             /\ records'[tasks[t].exam].error_message # None]_vars

\* C10 amended: when the load step fails, the step reports the failure and
\* the final write of the task sets processed_error with the failure text
\* of the step as error_message.
C10_LoadFailureReported ==
    [][\A t \in TaskIds :
          (FinalWrite(t) /\ tasks[t].raised = [step |-> "load"])
          => /\ records'[tasks[t].exam].status = "processed_error_simple"
             /\ records'[tasks[t].exam].error_message =
                  [text |-> "ERRO durante a IA Simples",
                   path |-> tasks[t].path, cause |-> "load"]]_vars

\* a finished task whose load step failed left processed_error and the text
C10_Witness ==
    \E t \in TaskIds :
        /\ tasks[t].pc = "done"
        /\ records[tasks[t].exam].status = "processed_error_simple"
        /\ records[tasks[t].exam].error_message.cause = "load"

\* C11: when the step returns a reported failure (success false, nothing
\* escaping), the final write of the task sets processed_error and the
\* error message of the step, sets gcs_output_findings_path to the partial
\* findings path when the step produced one (and leaves it otherwise), and
\* leaves gcs_output_mask_path as it was.
C11_ReportedFailureWrite ==
    [][\A t \in TaskIds :
          (FinalWrite(t) /\ tasks[t].results # None /\ ~tasks[t].results.success)
          => LET old == records[tasks[t].exam]
                 new == records'[tasks[t].exam]
                 partial == tasks[t].results.output_achados_gcs_path
             IN  /\ new.status = "processed_error_simple"
                 /\ new.error_message # None
                 /\ new.error_message = tasks[t].results.error_message
                 /\ new.gcs_output_findings_path =
                      IF partial # None THEN partial ELSE old.gcs_output_findings_path
                 /\ new.gcs_output_mask_path = old.gcs_output_mask_path]_vars

\* a finished task left processed_error, the message and a stored partial
\* findings file, the mask path still absent
C11_Witness ==
    \E t \in TaskIds :
        /\ tasks[t].pc = "done"
        /\ records[tasks[t].exam].status = "processed_error_simple"
        /\ records[tasks[t].exam].error_message # None
        /\ records[tasks[t].exam].gcs_output_findings_path \in blobs
        /\ records[tasks[t].exam].gcs_output_mask_path = None

\* C12: StartAnalysis, Status and Report called with an exam id that has no
\* record, the store answering, each respond 404, schedule no task and
\* create or change no record.
C12_UnknownIdIs404 ==
    [][/\ \A c \in DOMAIN calls' \ DOMAIN calls :
             (calls'[c].exam \notin DOMAIN records
                /\ calls'[c].response # [code |-> 500, kind |-> "firestore_error"])
             => /\ calls'[c].response.code = 404
                /\ tasks' = tasks
                /\ records' = records
       /\ \A q \in DOMAIN queries' \ DOMAIN queries :
             (queries'[q].exam \notin DOMAIN records
                /\ queries'[q].response # [code |-> 500, kind |-> "firestore_error"])
             => /\ queries'[q].response.code = 404
                /\ tasks' = tasks
                /\ records' = records]_vars

\* the part of C12 that the code keeps: such a request schedules no task and
\* leaves the records as they were
C12_UnknownIdNoEffect ==
    [][/\ \A c \in DOMAIN calls' \ DOMAIN calls :
             calls'[c].exam \notin DOMAIN records
             => tasks' = tasks /\ records' = records /\ calls'[c].pc = "returned"
       /\ \A q \in DOMAIN queries' \ DOMAIN queries :
             queries'[q].exam \notin DOMAIN records
             => tasks' = tasks /\ records' = records]_vars

\* C13: a Report request for an existing exam whose persisted status is not
\* processed_success (uploaded, processing, processed_error also with a
\* findings path set, error_no_input_path, error_processing_fatal), the
\* record being read, is rejected with the wrong-status error; whether the
\* record is read or not, no PDF is returned.
C13_ReportNeedsSuccess ==
    [][\A q \in DOMAIN queries' \ DOMAIN queries :
          (/\ queries'[q].op = "laudo"
           /\ queries'[q].exam \in DOMAIN records
           /\ records[queries'[q].exam].status # "processed_success_simple")
          => /\ queries'[q].response.code # 200
             /\ queries'[q].response # [code |-> 500, kind |-> "firestore_error"]
                  => queries'[q].response = [code |-> 400, kind |-> "wrong_status"]]_vars

\* a report was refused with the wrong-status error for an exam that is in
\* processed_error with a stored partial findings file
C13_Witness ==
    \E q \in QueryIds :
        /\ queries[q].op = "laudo"
        /\ queries[q].response = [code |-> 400, kind |-> "wrong_status"]
        /\ queries[q].exam \in DOMAIN records
        /\ records[queries[q].exam].status = "processed_error_simple"
        /\ records[queries[q].exam].gcs_output_findings_path \in blobs
        /\ \A t \in TaskIds : tasks[t].pc = "done"
        /\ Requests = MaxRequests

\* C14: when the record store cannot be reached as the task starts (client
\* construction or the first update fails), the task stops for good without
\* running the step and without writing a record field or a blob, and the
\* record keeps the status it had, uploaded or processing.
C14_AbortKeepsUploadedOrProcessing ==
    [][\A t \in TaskIds :
          /\ Aborts(t)
               => /\ records' = records
                  /\ blobs' = blobs
                  /\ records[tasks[t].exam].status \in {"uploaded", "processing_ia_simple"}
          /\ tasks[t].pc = "aborted" => tasks'[t] = tasks[t]]_vars

\* the part of C14 that the code keeps: the task stops for good and writes
\* neither a record field nor a blob
C14_AbortNoEffect ==
    [][\A t \in TaskIds :
          /\ Aborts(t) => records' = records /\ blobs' = blobs
          /\ tasks[t].pc = "aborted" => tasks'[t] = tasks[t]]_vars

\* C15: when the final write of the task fails, the task writes nothing
\* more; the record stays in processing with its other fields unchanged,
\* and every StartAnalysis that arrives later for the exam reads processing,
\* is answered "already in progress" and schedules no task.
C15_FailedFinalWriteStaysProcessing ==
    [][\A t \in TaskIds :
          /\ FinalWriteFails(t)
               => /\ records' = records
                  /\ records[tasks[t].exam].status = "processing_ia_simple"
          /\ tasks[t].pc = "final_update_failed"
               => /\ tasks'[t] = tasks[t]
                  /\ records'[tasks[t].exam] = records[tasks[t].exam]
                  /\ \A c \in DOMAIN calls' \ DOMAIN calls :
                        (calls'[c].exam = tasks[t].exam /\ calls'[c].pc = "guards")
                        => calls'[c].exam_data.status = "processing_ia_simple"
                  /\ \A c \in CallIds :
                        (Returns(c) /\ calls[c].exam = tasks[t].exam
                           /\ calls[c].exam_data.status = "processing_ia_simple")
                        => /\ tasks' = tasks
                           /\ calls'[c].response =
                                [code |-> 202, kind |-> "already_in_progress"]]_vars

\* the part of C15 that the code keeps: the failed write changes no record
\* and the task takes no further step
C15_FailedFinalWriteNoRetry ==
    [][\A t \in TaskIds :
          /\ FinalWriteFails(t) => records' = records /\ blobs' = blobs
          /\ tasks[t].pc = "final_update_failed" => tasks'[t] = tasks[t]]_vars

\* C16: in every state, a record created from an upload set has
\* gcs_raw_file_paths and original_filenames as long as the set (which is
\* not empty), the names being the names of the set in upload order and
\* gcs_raw_file_paths[i] the path {exam_id}/{name} of the stored blob of
\* original_filenames[i].
C16_PathsMatchFiles ==
    \A e \in DOMAIN records :
        LET files == uploads[e].files
            names == records[e].original_filenames
            paths == records[e].gcs_raw_file_paths
        IN  /\ Len(files) > 0
            /\ Len(paths) = Len(files)
            /\ Len(names) = Len(files)
            /\ \A i \in 1..Len(files) :
                  /\ names[i] = files[i]
                  /\ paths[i] = [scheme |-> "gs://", bucket |-> "rad2-459117-uploads",
                                 folder |-> e, file |-> names[i]]
                  /\ paths[i] \in blobs

\* a record of two files, notes.txt then SCAN.NII, after its analysis ended
C16_Witness ==
    \E e \in DOMAIN records :
        /\ uploads[e].files = <<NotesTxt, ScanNiiUpper>>
        /\ Len(records[e].gcs_raw_file_paths) = 2
        /\ records[e].gcs_raw_file_paths[2].file = ScanNiiUpper
        /\ records[e].status = "processed_error_simple"

\* C17: the record of an upload has as gcs_principal_nifti_path the stored
\* path of the first file, in arrival order, whose name ends in .nii or
\* .nii.gz whatever the case of its letters (scan.nii.gz and SCAN.NII, not
\* notes.txt); a later matching file does not replace it; with no such file
\* it is None.
C17_PrincipalIsFirstMatch ==
    \A e \in DOMAIN records :
        LET files == uploads[e].files
            matches == {i \in 1..Len(files) : files[i] \in {ScanNiiGz, ScanNiiUpper}}
            first == CHOOSE i \in matches : \A j \in matches : i <= j
        IN  IF matches = {}
            THEN records[e].gcs_principal_nifti_path = None
            ELSE /\ records[e].gcs_principal_nifti_path =
                      [scheme |-> "gs://", bucket |-> "rad2-459117-uploads",
                       folder |-> e, file |-> files[first]]
                 /\ records[e].gcs_principal_nifti_path =
                      records[e].gcs_raw_file_paths[first]
                 /\ records[e].gcs_principal_nifti_path \in blobs

\* notes.txt, SCAN.NII, scan.nii.gz uploaded in this order: the principal
\* path is that of SCAN.NII, the second file
C17_Witness ==
    \E e \in DOMAIN records :
        /\ uploads[e].files = <<NotesTxt, ScanNiiUpper, ScanNiiGz>>
        /\ records[e].gcs_principal_nifti_path = records[e].gcs_raw_file_paths[2]
        /\ records[e].gcs_principal_nifti_path.file = ScanNiiUpper

\* C18: an upload creates the record of its identifier only when it had at
\* least one file, every blob was stored and the record write succeeded (the
\* 201 response); after an empty set, a blob failure or a record write
\* failure there is no record for the identifier, in any later state, and
\* the blobs stored before the failure are still in the blob store.
C18_RecordOnlyOnFullUpload ==
    \A k \in DOMAIN uploads :
        LET u == uploads[k]
            path(i) == [scheme |-> "gs://", bucket |-> "rad2-459117-uploads",
                        folder |-> k, file |-> u.files[i]]
        IN  /\ k \in DOMAIN records <=> u.response = [code |-> 201, kind |-> "created"]
            /\ k \in DOMAIN records
                 => /\ u.files # <<>>
                    /\ u.failed = None
                    /\ \A i \in 1..Len(u.files) : path(i) \in blobs
            /\ u.files = <<>> => k \notin DOMAIN records /\ u.response.code # 201
            /\ u.failed # None
                 => /\ u.response = [code |-> 500, kind |-> "gcs_upload_error"]
                    /\ \E i \in 1..Len(u.files) : u.files[i] = u.failed
                    /\ \A i \in 1..Len(u.files) :
                          u.files[i] = u.failed => \A j \in 1..(i - 1) : path(j) \in blobs
            /\ u.response = [code |-> 500, kind |-> "firestore_error"]
                 => \A i \in 1..Len(u.files) : path(i) \in blobs

\* the upload of notes.txt and SCAN.NII failed at SCAN.NII: no record of its
\* identifier, the blob of notes.txt still stored after a later upload
\* created its own record
C18_Witness ==
    \E k \in DOMAIN uploads :
        /\ uploads[k].files = <<NotesTxt, ScanNiiUpper>>
        /\ uploads[k].response = [code |-> 500, kind |-> "gcs_upload_error"]
        /\ uploads[k].failed = ScanNiiUpper
        /\ k \notin DOMAIN records
        /\ GcsPath(GCS_UPLOAD_BUCKET, k, NotesTxt) \in blobs
        /\ GcsPath(GCS_UPLOAD_BUCKET, k, ScanNiiUpper) \notin blobs
        /\ k + 1 \in DOMAIN records

\* C19: no step changes gcs_principal_nifti_path, gcs_raw_file_paths,
\* original_filenames or created_at of a record that exists, or removes the
\* record; a record that appears is the record of an upload, under an
\* identifier that no record has and no earlier upload was given.
C19_UploadFieldsImmutable ==
    [][/\ \A e \in DOMAIN records :
             /\ e \in DOMAIN records'
             /\ \A f \in {"gcs_principal_nifti_path", "gcs_raw_file_paths",
                           "original_filenames", "created_at"} :
                   records'[e][f] = records[e][f]
       /\ \A e \in DOMAIN records' \ DOMAIN records :
             /\ e \notin DOMAIN uploads
             /\ DOMAIN uploads' = DOMAIN uploads \cup {e}
             /\ records'[e].exam_id = e]_vars

\* the record of scan.nii.gz went through its analysis and a later upload
\* created a second record: the first still has its files, its principal
\* path and its creation time
C19_Witness ==
    /\ DOMAIN records = {1, 2}
    /\ records[1].status = "processed_error_simple"
    /\ records[1].updated_at # None
    /\ records[1].created_at = [ts |-> 1]
    /\ records[2].created_at # [ts |-> 1]
    /\ records[1].original_filenames = <<ScanNiiGz>>
    /\ records[1].gcs_raw_file_paths = <<GcsPath(GCS_UPLOAD_BUCKET, 1, ScanNiiGz)>>
    /\ records[1].gcs_principal_nifti_path = GcsPath(GCS_UPLOAD_BUCKET, 1, ScanNiiGz)

\* C20: every step that changes a field of an existing record (the
\* error_no_input_path update of the request, the processing update and the
\* final update of the task) gives the record a new updated_at in the same
\* step: no field changes while updated_at stays the same.
C20_UpdatedAtOnEveryMutation ==
    [][\A e \in DOMAIN records :
          (e \in DOMAIN records' /\ records'[e] # records[e])
          => /\ records'[e].updated_at # records[e].updated_at
             /\ records'[e].updated_at = [ts |-> clock']
             /\ clock' > clock]_vars

\* a record after the two writes of its task, the processing update and
\* the final update, stamped by the second of them
C20_Witness ==
    \E e \in DOMAIN records, t \in TaskIds :
        /\ tasks[t].exam = e
        /\ tasks[t].pc = "done"
        /\ records[e].status = "processed_error_simple"
        /\ records[e].updated_at = [ts |-> records[e].created_at.ts + 2]

\* C21: for every volume whose voxels all have one value, and for the empty
\* volume, the step, no download, load, save or upload failing, succeeds,
\* with a mask of zeros only, a voxel count of 0 and no computable threshold
\* (reported as N/A).
C21_ConstantVolumeSucceeds ==
    [][\A t \in TaskIds :
          (/\ StepEnds(t)
           /\ \A i \in 1..Len(tasks[t].step.dados) :
                 tasks[t].step.dados[i] = tasks[t].step.dados[1]
           /\ tasks'[t].raised.step \notin Faults \ {"none"})
          => /\ \A i \in 1..Len(tasks[t].step.dados) : tasks[t].step.mascara_numpy[i] = 0
             /\ Cardinality({i \in 1..Len(tasks[t].step.dados) :
                                tasks[t].step.mascara_numpy[i] = 1}) = 0
             /\ tasks[t].step.limiar = [nan |-> TRUE]
             /\ tasks'[t].results # None
             /\ tasks'[t].results.success]_vars

\* the part of C21 that the code keeps: before line 104 the mask of a
\* constant or empty volume is all zeros and the threshold is NaN
C21_ConstantVolumeZeroMask ==
    \A t \in TaskIds :
        (/\ tasks[t].pc = "step_computed"
         /\ \A i \in 1..Len(tasks[t].step.dados) :
               tasks[t].step.dados[i] = tasks[t].step.dados[1])
        => /\ \A i \in 1..Len(tasks[t].step.dados) : tasks[t].step.mascara_numpy[i] = 0
           /\ tasks[t].step.limiar = [nan |-> TRUE]

\* C22: mutual exclusion of analysis runs: in no state have two tasks of
\* one exam both performed their processing write while neither has yet
\* performed its final write.
C22_MutualExclusion ==
    \A t1 \in TaskIds, t2 \in TaskIds :
        (t1 # t2 /\ tasks[t1].exam = tasks[t2].exam) => ~(InRun(t1) /\ InRun(t2))

\* C23: when every Firestore write succeeds and every scheduled task is run
\* on (weak fairness), an exam for which a StartAnalysis request was
\* accepted reaches a terminal status and from some point on keeps a
\* terminal status for good, however many tasks were scheduled for it.  An
\* accepted request stays in the log of requests, so "accepted leads to
\* terminal for good" is "from some point on, accepted implies terminal".
C23_AcceptedReachesTerminal ==
    <>[](\A e \in ExamIds :
          (\E c \in CallIds : /\ calls[c].exam = e
                              /\ calls[c].pc = "returned"
                              /\ calls[c].response = [code |-> 202, kind |-> "accepted"])
          => /\ e \in DOMAIN records
             /\ records[e].status \in {"processed_success_simple",
                                        "processed_error_simple",
                                        "error_no_nifti_path",
                                        "error_processing_fatal"})

\* two requests were accepted for one exam, both tasks have run to their
\* final write and the exam is in a terminal status
C23_Witness ==
    \E t1 \in TaskIds, t2 \in TaskIds :
        /\ t1 # t2
        /\ tasks[t1].exam = tasks[t2].exam
        /\ tasks[t1].pc = "done" /\ tasks[t2].pc = "done"
        /\ calls[tasks[t1].call].response = [code |-> 202, kind |-> "accepted"]
        /\ calls[tasks[t2].call].response = [code |-> 202, kind |-> "accepted"]
        /\ records[tasks[t1].exam].status \in final_statuses

\* C24: a Status request, a Report request, the read of a StartAnalysis
\* request, and the return of a StartAnalysis request that read the status
\* processing or a terminal status leave every record as it was and
\* schedule no task; an upload leaves every record that exists as it was;
\* and a request that changes a record is a StartAnalysis request answering
\* 400 for a bad input path, which sets the status of its own exam to
\* error_no_input_path, stamps updated_at, and changes nothing else.
C24_RequestsFrame ==
    [][/\ (Len(queries') > Len(queries) \/ Len(calls') > Len(calls))
          => records' = records /\ tasks' = tasks
       /\ Len(uploads') > Len(uploads)
          => /\ tasks' = tasks
             /\ \A e \in DOMAIN records :
                   e \in DOMAIN records' /\ records'[e] = records[e]
       /\ \A c \in CallIds :
             Returns(c)
             => /\ calls[c].exam_data.status \in
                      {"processing_ia_simple", "processed_success_simple",
                       "processed_error_simple", "error_no_nifti_path",
                       "error_processing_fatal"}
                   => records' = records /\ tasks' = tasks
                /\ records' # records
                   => /\ calls'[c].response = [code |-> 400, kind |-> "bad_input"]
                      /\ tasks' = tasks
                      /\ records' = [records EXCEPT ![calls[c].exam] =
                            [@ EXCEPT !.status = "error_no_nifti_path",
                                      !.updated_at = [ts |-> clock + 1]]]]_vars

\* an exam uploaded without a NIfTI file whose first StartAnalysis request
\* wrote error_no_input_path and whose second request, reading that
\* status, answered 409: the record carries the one write of the first
\* request and no task exists
C24_Witness ==
    \E c1 \in CallIds, c2 \in CallIds :
        /\ c1 < c2
        /\ calls[c1].exam = calls[c2].exam
        /\ calls[c1].pc = "returned"
        /\ calls[c1].response = [code |-> 400, kind |-> "bad_input"]
        /\ calls[c2].pc = "returned"
        /\ calls[c2].response = [code |-> 409, kind |-> "conflict"]
        /\ calls[c1].exam \in DOMAIN records
        /\ records[calls[c1].exam].status = "error_no_nifti_path"
        /\ records[calls[c1].exam].updated_at =
              [ts |-> records[calls[c1].exam].created_at.ts + 1]
        /\ tasks = <<>>

====
